---- MODULE Spec2Model ----
(***************************************************************************)
(* A model of camelot's Table (src/camelot/table.py): the grid of cells    *)
(* built from column and row boundary lists, set_edges, which marks cell   *)
(* edges from detected line segments by tolerance matching, and            *)
(* set_spanning, which infers merged cells from the edge flags.            *)
(*                                                                         *)
(* Python lists and tuples are TLA+ sequences; At(s, i) is Python's s[i],  *)
(* index 0 first and a negative index counted from the end.                *)
(***************************************************************************)
EXTENDS Integers, Sequences, FiniteSets, TLC

VARIABLES
    cols,        \* self.cols: list of (x_start, x_end), increasing x
    rows,        \* self.rows: list of (y_start, y_end), decreasing y
    jtol,        \* the jtol argument the caller passes to set_edges
    cells,       \* self.cells: rows x cols, row-major
    nocont_,     \* self.nocont_
    op,          \* the last method called: "init", "set_edges", "set_spanning"
    vertical,    \* the last set_edges call's vertical list
    horizontal,  \* the last set_edges call's horizontal list
    pre,         \* [cells, nocont_] when the last method was called
    ncalls       \* how many methods were called since construction

vars == <<cols, rows, jtol, cells, nocont_, op, vertical, horizontal, pre, ncalls>>

-----------------------------------------------------------------------------
(* Bounds of the model *)

MaxCoord == 3      \* coordinates are 0..MaxCoord
MaxCols == 3       \* at most this many columns
MaxRows == 2       \* at most this many rows
MaxTol == 1        \* jtol is 0..MaxTol

-----------------------------------------------------------------------------
(* Python values *)

\* Python's s[i] on a list or tuple: 0-based, negative i counted from the end.
At(s, i) == IF i < 0 THEN s[Len(s) + i + 1] ELSE s[i + 1]

\* range(n) as a list
RECURSIVE Range(_)
Range(n) == IF n <= 0 THEN <<>> ELSE Append(Range(n - 1), n - 1)

Abs(x) == IF x < 0 THEN -x ELSE x

\* numpy's default rtol of isclose is 1e-05 = 1 / RtolInv
RtolInv == 100000

\* np.isclose(a, b, atol=atol): |a - b| <= atol + rtol * |b|, in integers
isclose(a, b, atol) == RtolInv * Abs(a - b) <= RtolInv * atol + Abs(b)

\* [i for i, t in enumerate(lst) if np.isclose(x, t[0], atol=tol)]
Matches(x, lst, tol) ==
    SelectSeq(Range(Len(lst)), LAMBDA i : isclose(x, At(At(lst, i), 0), tol))

-----------------------------------------------------------------------------
(* Cell (camelot/cell.py) as the table uses it *)

\* Cell(x1, y1, x2, y2): a new cell has no edge and no spanning flag set
Cell == [left |-> FALSE, right |-> FALSE, top |-> FALSE, bottom |-> FALSE,
         spanning_h |-> FALSE, spanning_v |-> FALSE]

\* Cell.get_bounded_edges(): how many of the four edges are set
get_bounded_edges(c) ==
    (IF c.left THEN 1 ELSE 0) + (IF c.right THEN 1 ELSE 0)
    + (IF c.top THEN 1 ELSE 0) + (IF c.bottom THEN 1 ELSE 0)

\* self.cells[r][c].<attr> = True
SetAttr(cs, r, c, attr) ==
    LET ri == IF r < 0 THEN Len(cs) + r + 1 ELSE r + 1
        ci == IF c < 0 THEN Len(cs[ri]) + c + 1 ELSE c + 1
    IN  [cs EXCEPT ![ri][ci][attr] = TRUE]

\* Table.__init__: the cells, one per (row, column)
NewCells(cs, rs) == [r \in 1..Len(rs) |-> [c \in 1..Len(cs) |-> Cell]]

-----------------------------------------------------------------------------
(* set_edges *)

\* while J < K: self.cells[J][I].left = True; J += 1
RECURSIVE WhileLeft(_, _, _, _)
WhileLeft(cs, J, K, I) ==
    IF J < K THEN WhileLeft(SetAttr(cs, J, I, "left"), J + 1, K, I) ELSE cs

\* Mutant of WhileRight: the right-boundary branch marks left
RECURSIVE WhileRightAsLeft(_, _, _, _)
WhileRightAsLeft(cs, J, K, I) ==
    IF J < K THEN WhileRightAsLeft(SetAttr(cs, J, I, "left"), J + 1, K, I) ELSE cs

\* while J < K: self.cells[J][I].right = True; J += 1
RECURSIVE WhileRight(_, _, _, _)
WhileRight(cs, J, K, I) ==
    IF J < K THEN WhileRight(SetAttr(cs, J, I, "right"), J + 1, K, I) ELSE cs

\* Mutant of WhileLeftRight: the neighbour's right edge is forgotten
RECURSIVE WhileLeftRightOnlyLeft(_, _, _, _)
WhileLeftRightOnlyLeft(cs, J, K, I) ==
    IF J < K
    THEN WhileLeftRightOnlyLeft(SetAttr(cs, J, I, "left"), J + 1, K, I)
    ELSE cs

\* while J < K: self.cells[J][I].left = True
\*              self.cells[J][I - 1].right = True; J += 1
RECURSIVE WhileLeftRight(_, _, _, _)
WhileLeftRight(cs, J, K, I) ==
    IF J < K
    THEN WhileLeftRight(SetAttr(SetAttr(cs, J, I, "left"), J, I - 1, "right"),
                        J + 1, K, I)
    ELSE cs

\* while J < K: self.cells[I][J].top = True; J += 1
RECURSIVE WhileTop(_, _, _, _)
WhileTop(cs, J, K, I) ==
    IF J < K THEN WhileTop(SetAttr(cs, I, J, "top"), J + 1, K, I) ELSE cs

\* Mutant of WhileBottom: the loop stops one column early
RECURSIVE WhileBottomShort(_, _, _, _)
WhileBottomShort(cs, J, K, I) ==
    IF J < K - 1
    THEN WhileBottomShort(SetAttr(cs, I, J, "bottom"), J + 1, K, I)
    ELSE cs

\* while J < K: self.cells[I][J].bottom = True; J += 1
RECURSIVE WhileBottom(_, _, _, _)
WhileBottom(cs, J, K, I) ==
    IF J < K THEN WhileBottom(SetAttr(cs, I, J, "bottom"), J + 1, K, I) ELSE cs

\* Mutant of WhileTopBottom: the bottom edge of the row above is forgotten
RECURSIVE WhileTopBottomOnlyTop(_, _, _, _)
WhileTopBottomOnlyTop(cs, J, K, I) ==
    IF J < K
    THEN WhileTopBottomOnlyTop(SetAttr(cs, I, J, "top"), J + 1, K, I)
    ELSE cs

\* while J < K: self.cells[I][J].top = True
\*              self.cells[I - 1][J].bottom = True; J += 1
RECURSIVE WhileTopBottom(_, _, _, _)
WhileTopBottom(cs, J, K, I) ==
    IF J < K
    THEN WhileTopBottom(SetAttr(SetAttr(cs, I, J, "top"), I - 1, J, "bottom"),
                        J + 1, K, I)
    ELSE cs

\* Mutant of Unmatched: the line is skipped without being counted
UnmatchedNotCounted(st) == st

\* if not j: self.nocont_ += 1; continue
Unmatched(st) == [st EXCEPT !.nocont_ = @ + 1]

\* I of the branch "elif i == []" of the vertical loop: the last column
RightEdgeColumn == Len(cols) - 1

\* I of the branch "elif i == []" of the horizontal loop: the last row
BottomEdgeRow == Len(rows) - 1

\* The body of "for v in vertical", on st = [cells, nocont_]
VerticalBody(st, v, tol) ==
    LET i == Matches(At(v, 0), cols, tol)
        j == Matches(At(v, 3), rows, tol)
        k == Matches(At(v, 1), rows, tol)
    IN  IF j = <<>>
        THEN Unmatched(st)
        ELSE LET J == At(j, 0)
                 K == IF k # <<>> THEN At(k, 0) ELSE Len(rows)
             IN  IF i = <<0>>
                 THEN [st EXCEPT !.cells = WhileLeft(@, J, K, At(i, 0))]
                 ELSE IF i = <<>>
                 THEN [st EXCEPT !.cells = WhileRight(@, J, K, RightEdgeColumn)]
                 ELSE [st EXCEPT !.cells = WhileLeftRight(@, J, K, At(i, 0))]

\* The body of "for h in horizontal", on st = [cells, nocont_]
HorizontalBody(st, h, tol) ==
    LET i == Matches(At(h, 1), rows, tol)
        j == Matches(At(h, 0), cols, tol)
        k == Matches(At(h, 2), cols, tol)
    IN  IF j = <<>>
        THEN Unmatched(st)
        ELSE LET J == At(j, 0)
                 K == IF k # <<>> THEN At(k, 0) ELSE Len(cols)
             IN  IF i = <<0>>
                 THEN [st EXCEPT !.cells = WhileTop(@, J, K, At(i, 0))]
                 ELSE IF i = <<>>
                 THEN [st EXCEPT !.cells = WhileBottom(@, J, K, BottomEdgeRow)]
                 ELSE [st EXCEPT !.cells = WhileTopBottom(@, J, K, At(i, 0))]

\* Mutant of ForVertical: an unmatched line ends the loop ("break" for
\* "continue")
RECURSIVE ForVerticalBreak(_, _, _, _)
ForVerticalBreak(st, V, tol, n) ==
    IF n = 0 THEN st
    ELSE LET before == ForVerticalBreak(st, V, tol, n - 1)
         IN  IF before.nocont_ > st.nocont_ THEN before
             ELSE VerticalBody(before, At(V, n - 1), tol)

\* "for v in vertical" over the first n segments of V
RECURSIVE ForVertical(_, _, _, _)
ForVertical(st, V, tol, n) ==
    IF n = 0 THEN st
    ELSE VerticalBody(ForVertical(st, V, tol, n - 1), At(V, n - 1), tol)

\* "for h in horizontal" over the first n segments of H
RECURSIVE ForHorizontal(_, _, _, _)
ForHorizontal(st, H, tol, n) ==
    IF n = 0 THEN st
    ELSE HorizontalBody(ForHorizontal(st, H, tol, n - 1), At(H, n - 1), tol)

\* What set_edges(V, H, jtol=tol) makes of st = [cells, nocont_]
SetEdgesResult(st, V, H, tol) ==
    ForHorizontal(ForVertical(st, V, tol, Len(V)), H, tol, Len(H))

Now == [cells |-> cells, nocont_ |-> nocont_]

\* Table.set_edges(vertical, horizontal, jtol)
set_edges(V, H, tol) ==
    /\ LET st == SetEdgesResult(Now, V, H, tol)
       IN  /\ cells' = st.cells
           /\ nocont_' = st.nocont_
    /\ op' = "set_edges"
    /\ UNCHANGED <<cols, rows>>

-----------------------------------------------------------------------------
(* set_spanning *)

\* Mutant of SpanCell: two edges on one axis are taken to span along it
SpanCellSwapped(c) ==
    LET bound == get_bounded_edges(c)
    IN  IF bound = 3
        THEN IF ~c.left \/ ~c.right
             THEN [c EXCEPT !.spanning_h = TRUE]
             ELSE [c EXCEPT !.spanning_v = TRUE]
        ELSE IF bound = 2
        THEN IF c.left /\ c.right THEN [c EXCEPT !.spanning_h = TRUE]
             ELSE IF c.top /\ c.bottom THEN [c EXCEPT !.spanning_v = TRUE]
             ELSE c
        ELSE c

\* The body of the two loops of set_spanning, on one cell
SpanCell(c) ==
    LET bound == get_bounded_edges(c)
    IN  IF bound = 4 THEN c
        ELSE IF bound = 3
        THEN IF ~c.left
             THEN IF c.right /\ c.top /\ c.bottom
                  THEN [c EXCEPT !.spanning_h = TRUE] ELSE c
             ELSE IF ~c.right
             THEN IF c.left /\ c.top /\ c.bottom
                  THEN [c EXCEPT !.spanning_h = TRUE] ELSE c
             ELSE IF ~c.top
             THEN IF c.left /\ c.right /\ c.bottom
                  THEN [c EXCEPT !.spanning_v = TRUE] ELSE c
             ELSE IF ~c.bottom
             THEN IF c.left /\ c.right /\ c.top
                  THEN [c EXCEPT !.spanning_v = TRUE] ELSE c
             ELSE c
        ELSE IF bound = 2
        THEN IF c.left /\ c.right
             THEN IF ~c.top /\ ~c.bottom
                  THEN [c EXCEPT !.spanning_v = TRUE] ELSE c
             ELSE IF c.top /\ c.bottom
             THEN IF ~c.left /\ ~c.right
                  THEN [c EXCEPT !.spanning_h = TRUE] ELSE c
             ELSE c
        ELSE c

\* Table.set_spanning()
set_spanning ==
    /\ cells' = [r \in 1..Len(cells) |->
                    [c \in 1..Len(cells[r]) |-> SpanCell(cells[r][c])]]
    /\ op' = "set_spanning"
    /\ UNCHANGED <<cols, rows, nocont_>>

-----------------------------------------------------------------------------
(* Tables and inputs *)

\* Column lists over the coordinates C, at most N columns: pairs
\* (x_start, x_end) in increasing x, not overlapping
ColListsOf(C, N) ==
    UNION {{s \in [1..n -> {<<a, b>> \in C \X C : a < b}] :
              \A q \in 1..(n - 1) : s[q][2] <= s[q + 1][1]} : n \in 1..N}

\* Row lists over the coordinates C, at most N rows: pairs (y_start, y_end)
\* in decreasing y, not overlapping
RowListsOf(C, N) ==
    UNION {{s \in [1..n -> {<<a, b>> \in C \X C : a > b}] :
              \A q \in 1..(n - 1) : s[q][2] >= s[q + 1][1]} : n \in 1..N}

\* Detected lines over the coordinates C: vertical (x, y1, x, y2) and
\* horizontal (x1, y, x2, y), the endpoints in either order
VSegsOf(C) == {<<x, y1, x, y2>> : x \in C, y1 \in C, y2 \in C}
HSegsOf(C) == {<<x1, y, x2, y>> : x1 \in C, x2 \in C, y \in C}

Coords == 0..MaxCoord
ColLists == ColListsOf(Coords, MaxCols)
RowLists == RowListsOf(Coords, MaxRows)
VSegs == VSegsOf(Coords)
HSegs == HSegsOf(Coords)

\* jtol=2 of set_edges' signature
DefaultJtol == 2

\* Table(cols, rows)
Construct(cs, rs) ==
    /\ cols = cs
    /\ rows = rs
    /\ cells = NewCells(cs, rs)
    /\ nocont_ = 0
    /\ jtol = DefaultJtol
    /\ op = "init"
    /\ vertical = <<>>
    /\ horizontal = <<>>
    /\ pre = [cells |-> NewCells(cs, rs), nocont_ |-> 0]
    /\ ncalls = 0

Init == \E cs \in ColLists, rs \in RowLists : Construct(cs, rs)

\* History: the arguments of the call just made and the table before it
Logged(V, H, tol) ==
    /\ vertical' = V
    /\ horizontal' = H
    /\ jtol' = tol
    /\ pre' = Now
    /\ ncalls' = ncalls + 1

\* History: only the number of calls
Counted ==
    /\ ncalls' = ncalls + 1
    /\ UNCHANGED <<vertical, horizontal, jtol, pre>>

\* The table's life: constructed, one pass of set_edges over one detected
\* line (or none), then set_spanning
EdgePass ==
    /\ op = "init"
    /\ \E tol \in 0..MaxTol :
          \/ \E v \in VSegs : set_edges(<<v>>, <<>>, tol) /\ Logged(<<v>>, <<>>, tol)
          \/ \E h \in HSegs : set_edges(<<>>, <<h>>, tol) /\ Logged(<<>>, <<h>>, tol)
          \/ set_edges(<<>>, <<>>, tol) /\ Logged(<<>>, <<>>, tol)

SpanPass ==
    /\ op = "set_edges"
    /\ set_spanning
    /\ Logged(vertical, horizontal, jtol)

Next == EdgePass \/ SpanPass

Spec == Init /\ [][Next]_vars

-----------------------------------------------------------------------------
(* Small tables: any sequence of calls, and calls with two lines *)

SmallCoord == 2    \* coordinates are 0..SmallCoord
SmallTol == 1      \* jtol is 0..SmallTol
CallsMax == 4      \* at most this many calls on one table

SmallCoords == 0..SmallCoord
SmallVSegs == VSegsOf(SmallCoords)
SmallHSegs == HSegsOf(SmallCoords)

InitSmall ==
    \E cs \in ColListsOf(SmallCoords, SmallCoord),
       rs \in RowListsOf(SmallCoords, SmallCoord) : Construct(cs, rs)

EdgesCall ==
    /\ ncalls < CallsMax
    /\ \E tol \in 0..SmallTol :
          \/ \E v \in SmallVSegs : set_edges(<<v>>, <<>>, tol)
          \/ \E h \in SmallHSegs : set_edges(<<>>, <<h>>, tol)
    /\ Counted

SpanningCall ==
    /\ ncalls < CallsMax
    /\ set_spanning
    /\ Counted

NextCalls == EdgesCall \/ SpanningCall

SpecCalls == InitSmall /\ [][NextCalls]_vars

-----------------------------------------------------------------------------
(* Lattice tables: evenly spaced boundaries, and the lines of the lattice *)

LatticeMaxGap == 5    \* columns are 1..LatticeMaxGap wide, rows as high
LatticeMaxDim == 2    \* at most this many columns, and rows
LatticeMaxTol == 2    \* jtol is 0..LatticeMaxTol

\* n columns of width g from x = 0; m rows of height g down to y = 0
UniformCols(g, n) == [c \in 1..n |-> <<(c - 1) * g, c * g>>]
UniformRows(g, m) == [r \in 1..m |-> <<(m - r + 1) * g, (m - r) * g>>]

InitLattice ==
    \E gx \in 1..LatticeMaxGap, gy \in 1..LatticeMaxGap,
       n \in 1..LatticeMaxDim, m \in 1..LatticeMaxDim :
        Construct(UniformCols(gx, n), UniformRows(gy, m))

\* An order of the segments over SmallCoords
SegKey(s) ==
    ((s[1] * (SmallCoord + 1) + s[2]) * (SmallCoord + 1) + s[3])
        * (SmallCoord + 1) + s[4]

\* One pass of set_edges over two lines of one direction.  Of the two orders
\* of a pair the call takes one; C7 compares it with the other.
PairPass ==
    /\ op = "init"
    /\ \E tol \in 0..SmallTol :
          \/ \E a \in SmallVSegs, b \in SmallVSegs :
                /\ SegKey(a) <= SegKey(b)
                /\ set_edges(<<a, b>>, <<>>, tol)
                /\ Logged(<<a, b>>, <<>>, tol)
          \/ \E a \in SmallHSegs, b \in SmallHSegs :
                /\ SegKey(a) <= SegKey(b)
                /\ set_edges(<<>>, <<a, b>>, tol)
                /\ Logged(<<>>, <<a, b>>, tol)

\* Evenly spaced tables within SmallCoords
InitUniform ==
    \E gx \in 1..SmallCoord, gy \in 1..SmallCoord,
       n \in 1..SmallCoord, m \in 1..SmallCoord :
        /\ gx * n <= SmallCoord
        /\ gy * m <= SmallCoord
        /\ Construct(UniformCols(gx, n), UniformRows(gy, m))

SpecPairs == InitUniform /\ [][PairPass]_vars

\* The boundaries of the table: every column's left x and the last one's
\* right x; every row's top y and the last one's bottom y
ColumnBoundaries ==
    [q \in 1..(Len(cols) + 1) |->
        IF q <= Len(cols) THEN cols[q][1] ELSE cols[Len(cols)][2]]
RowBoundaries ==
    [q \in 1..(Len(rows) + 1) |->
        IF q <= Len(rows) THEN rows[q][1] ELSE rows[Len(rows)][2]]

\* The lattice: a full-height vertical line at every column boundary and a
\* full-width horizontal line at every row boundary
LatticeV ==
    [q \in 1..(Len(cols) + 1) |->
        <<ColumnBoundaries[q], rows[Len(rows)][2], ColumnBoundaries[q], rows[1][1]>>]
LatticeH ==
    [q \in 1..(Len(rows) + 1) |->
        <<cols[1][1], RowBoundaries[q], cols[Len(cols)][2], RowBoundaries[q]>>]

\* The lines of s at the indices in keep, in the order of s
RECURSIVE Kept(_, _)
Kept(s, keep) ==
    IF s = <<>> THEN <<>>
    ELSE LET front == Kept(SubSeq(s, 1, Len(s) - 1), keep)
         IN  IF Len(s) \in keep THEN Append(front, s[Len(s)]) ELSE front

\* One pass of set_edges over the detected lines: any of the lattice's
LatticePass ==
    /\ op = "init"
    /\ \E tol \in 0..LatticeMaxTol,
          kv \in SUBSET (1..(Len(cols) + 1)), kh \in SUBSET (1..(Len(rows) + 1)) :
            /\ set_edges(Kept(LatticeV, kv), Kept(LatticeH, kh), tol)
            /\ Logged(Kept(LatticeV, kv), Kept(LatticeH, kh), tol)

NextLattice == LatticePass \/ SpanPass

SpecLattice == InitLattice /\ [][NextLattice]_vars

-----------------------------------------------------------------------------
(* Vocabulary of the properties.  Indices here are TLA+'s, 1 first: the    *)
(* code's cells[r][c] is cells[r + 1][c + 1].                              *)

\* a is within the tolerance of b
Within(a, b, tol) == Abs(a - b) <= tol

\* The indices of lst whose start coordinate is within tol of x
AllWithin(x, lst, tol) == {q \in 1..Len(lst) : Within(x, lst[q][1], tol)}

\* The first of them, 0 when there is none
FirstWithin(x, lst, tol) ==
    LET S == AllWithin(x, lst, tol)
    IN  IF S = {} THEN 0 ELSE CHOOSE q \in S : \A q2 \in S : q <= q2

\* The range of indices a segment affects: from the first match of its first
\* endpoint up to, not including, the first match of its second endpoint, or
\* through the last index when the second endpoint matches nothing
Affected(first, second, lst, tol) ==
    LET J == FirstWithin(first, lst, tol)
        K == FirstWithin(second, lst, tol)
    IN  IF J = 0 THEN {} ELSE J..(IF K = 0 THEN Len(lst) ELSE K - 1)

\* cs with the flags named in S, a set of <<row, column, flag>>, set
Marked(cs, S) ==
    [r \in 1..Len(cs) |-> [c \in 1..Len(cs[r]) |->
        [a \in DOMAIN cs[r][c] |-> cs[r][c][a] \/ <<r, c, a>> \in S]]]

EdgeNames == {"left", "right", "top", "bottom"}

\* The last call was set_edges with the one vertical line and nothing else
OneVertical == op = "set_edges" /\ Len(vertical) = 1 /\ horizontal = <<>>

\* The last call was set_edges with the one horizontal line and nothing else
OneHorizontal == op = "set_edges" /\ Len(horizontal) = 1 /\ vertical = <<>>

\* The table set_edges was called on was freshly constructed
FreshBefore == pre = [cells |-> NewCells(cols, rows), nocont_ |-> 0]

-----------------------------------------------------------------------------
(* C4 *)

\* C4 as claimed: a vertical segment (x, y_low, _, y_high), y_low <= y_high,
\* whose lower endpoint y_low is within tolerance of no row's top y, adds
\* exactly one to nocont_ and changes no edge flag.
C4_LowerUnmatchedCounted ==
    OneVertical =>
        LET v == vertical[1]
        IN  (v[2] <= v[4] /\ FirstWithin(v[2], rows, jtol) = 0)
            => (nocont_ = pre.nocont_ + 1 /\ cells = pre.cells)

\* C4 as amended: a vertical segment whose upper endpoint y_high (the
\* coordinate v[3] of the segment) is within tolerance of no row's top y adds
\* exactly one to nocont_ and changes no edge flag.
C4_UpperUnmatchedCounted ==
    OneVertical =>
        LET v == vertical[1]
        IN  (v[2] <= v[4] /\ FirstWithin(v[4], rows, jtol) = 0)
            => (nocont_ = pre.nocont_ + 1 /\ cells = pre.cells)

\* C4's case: a counted segment whose lower endpoint does match a row
C4_Witness ==
    /\ OneVertical
    /\ vertical[1][2] < vertical[1][4]
    /\ FirstWithin(vertical[1][4], rows, jtol) = 0
    /\ FirstWithin(vertical[1][2], rows, jtol) # 0
    /\ nocont_ = 1

-----------------------------------------------------------------------------
(* C3 *)

\* The vertical segment v spans exactly the row r: its upper y is within
\* tolerance of the top of r and of no other row's, its lower y is within
\* tolerance of the bottom of r, and the only row top its lower y is within
\* tolerance of is that of the row below r
SpansExactly(v, r, tol) ==
    /\ AllWithin(v[4], rows, tol) = {r}
    /\ Within(v[2], rows[r][2], tol)
    /\ AllWithin(v[2], rows, tol) = (IF r < Len(rows) THEN {r + 1} ELSE {})

\* C3 as claimed: on a freshly constructed table, set_edges with the single
\* vertical segment whose x is within tolerance of the first column's left x
\* (further columns may match too) and whose y-range spans exactly one row r,
\* and no horizontal segment, sets cells[r][0].left and changes no other flag
\* of any cell.
C3_FirstColumnOnlyLeft ==
    (OneVertical /\ FreshBefore) =>
        LET v == vertical[1]
        IN  \A r \in 1..Len(rows) :
                (Within(v[1], cols[1][1], jtol) /\ SpansExactly(v, r, jtol))
                => cells = Marked(pre.cells, {<<r, 1, "left">>})

-----------------------------------------------------------------------------
(* C5 *)

\* C5: with n >= 3 columns, a vertical segment whose first matching column i
\* is interior (0 < i < n-1) and whose upper endpoint matches some row sets
\* cells[r][i].left and cells[r][i-1].right for every row r from the first row
\* matching its upper y up to, not including, the first row matching its
\* lower y, or through the last row when its lower y matches no row.
C5_InteriorBothEdges ==
    OneVertical =>
        LET v == vertical[1]
            i == FirstWithin(v[1], cols, jtol)
        IN  (Len(cols) >= 3 /\ 1 < i /\ i < Len(cols)
             /\ FirstWithin(v[4], rows, jtol) # 0)
            => \A r \in Affected(v[4], v[2], rows, jtol) :
                   cells[r][i].left /\ cells[r][i - 1].right

\* C5's case: several columns match, the first of them interior, and the
\* segment runs over more than one row
C5_Witness ==
    /\ OneVertical
    /\ Len(cols) >= 3
    /\ Cardinality(AllWithin(vertical[1][1], cols, jtol)) >= 2
    /\ FirstWithin(vertical[1][1], cols, jtol) = 2
    /\ Cardinality(Affected(vertical[1][4], vertical[1][2], rows, jtol)) >= 2
    /\ \A r \in 1..Len(rows) : cells[r][2].left /\ cells[r][1].right

-----------------------------------------------------------------------------
(* C9 *)

-----------------------------------------------------------------------------
(* C6 *)

\* What C6 says a horizontal segment h does to the cells cs
C6_Expected(cs, h, tol) ==
    LET I == FirstWithin(h[2], rows, tol)
        A == Affected(h[1], h[3], cols, tol)
    IN  IF I = 1 THEN Marked(cs, {<<1, c, "top">> : c \in A})
        ELSE IF I = 0 THEN Marked(cs, {<<Len(rows), c, "bottom">> : c \in A})
        ELSE Marked(cs, {<<I, c, "top">> : c \in A}
                        \cup {<<I - 1, c, "bottom">> : c \in A})

\* C6 as claimed: a horizontal segment (x_left, y, x_right, _) affects the
\* columns from the first one matching x_left up to, not including, the first
\* one matching x_right (through the last if none does); if the first row
\* matching y is row 0 only the top flags of row 0 are set, if no row matches
\* only the bottom flags of the last row, if the first matching row I is >= 1
\* the top flags of row I and the bottom flags of row I-1; nothing else
\* changes; a segment whose x_left matches no column changes no flag and adds
\* one to nocont_.
C6_HorizontalSymmetric ==
    OneHorizontal =>
        LET h == horizontal[1]
        IN  IF FirstWithin(h[1], cols, jtol) = 0
            THEN cells = pre.cells /\ nocont_ = pre.nocont_ + 1
            ELSE cells = C6_Expected(pre.cells, h, jtol)

-----------------------------------------------------------------------------
(* C8 *)

\* The lines of the last set_edges call whose loop body left every cell as it
\* was: on a freshly constructed table, those that assigned no edge flag
IdleVertical ==
    {p \in 1..Len(vertical) :
        ForVertical(pre, vertical, jtol, p).cells
        = ForVertical(pre, vertical, jtol, p - 1).cells}
IdleHorizontal ==
    LET st == ForVertical(pre, vertical, jtol, Len(vertical))
    IN  {p \in 1..Len(horizontal) :
            ForHorizontal(st, horizontal, jtol, p).cells
            = ForHorizontal(st, horizontal, jtol, p - 1).cells}

\* C8 as claimed: after set_edges on a freshly constructed table, nocont_ is
\* the number of input lines, vertical plus horizontal, that assigned no edge
\* flag of any cell.
C8_NocontCountsIdleLines ==
    (op = "set_edges" /\ FreshBefore) =>
        nocont_ = Cardinality(IdleVertical) + Cardinality(IdleHorizontal)

-----------------------------------------------------------------------------
(* C1 *)

\* Every pair of distinct boundaries of the table is more than tol apart
BoundariesApart(tol) ==
    /\ \A p, q \in 1..(Len(cols) + 1) :
          p # q => ~Within(ColumnBoundaries[p], ColumnBoundaries[q], tol)
    /\ \A p, q \in 1..(Len(rows) + 1) :
          p # q => ~Within(RowBoundaries[p], RowBoundaries[q], tol)

\* C1: on a freshly constructed contiguous table whose boundaries are more
\* than the tolerance apart, set_edges with the full lattice (a full-height
\* vertical line at every column boundary, a full-width horizontal line at
\* every row boundary) sets all four edges of every cell, and set_spanning
\* then sets no spanning flag.
C1_FullLatticeBounded ==
    (/\ op \in {"set_edges", "set_spanning"}
     /\ vertical = LatticeV
     /\ horizontal = LatticeH
     /\ BoundariesApart(jtol))
    => \A r \in 1..Len(cells) : \A c \in 1..Len(cells[r]) :
           /\ \A a \in EdgeNames : cells[r][c][a]
           /\ get_bounded_edges(cells[r][c]) = 4
           /\ ~cells[r][c].spanning_h
           /\ ~cells[r][c].spanning_v

\* C1's case: the 2x2 table of the example, tolerance 2, after both passes
C1_Witness ==
    /\ cols = <<<<0, 5>>, <<5, 10>>>>
    /\ rows = <<<<10, 5>>, <<5, 0>>>>
    /\ jtol = DefaultJtol
    /\ op = "set_spanning"
    /\ vertical = <<<<0, 0, 0, 10>>, <<5, 0, 5, 10>>, <<10, 0, 10, 10>>>>
    /\ horizontal = <<<<0, 10, 10, 10>>, <<0, 5, 10, 5>>, <<0, 0, 10, 0>>>>
    /\ \A r \in 1..2 : \A c \in 1..2 : get_bounded_edges(cells[r][c]) = 4

-----------------------------------------------------------------------------
(* C2 *)

\* C2: set_spanning, on a cell whose spanning flags were both false, sets the
\* horizontal flag exactly when top and bottom are set and left or right is
\* not, and the vertical flag exactly when left and right are set and top or
\* bottom is not.
C2_SpanningDecisionTable ==
    op = "set_spanning" =>
        \A r \in 1..Len(cells) : \A c \in 1..Len(cells[r]) :
            LET b == pre.cells[r][c]
                a == cells[r][c]
            IN  (~b.spanning_h /\ ~b.spanning_v)
                => /\ a.spanning_h = (b.top /\ b.bottom /\ ~(b.left /\ b.right))
                   /\ a.spanning_v = (b.left /\ b.right /\ ~(b.top /\ b.bottom))

\* C2's case: a cell with only its bottom edge missing came out spanning
\* vertically, beside a cell with an adjacent pair of edges and no span
C2_Witness ==
    /\ op = "set_spanning"
    /\ Len(cols) = 2
    /\ LET a == cells[1][1]
           b == cells[1][2]
       IN  /\ a.left /\ a.right /\ a.top /\ ~a.bottom
           /\ a.spanning_v /\ ~a.spanning_h
           /\ b.left /\ b.top /\ ~b.right /\ ~b.bottom
           /\ ~b.spanning_v /\ ~b.spanning_h

-----------------------------------------------------------------------------
(* C7 *)

\* The lists with the elements of s in every order
Orders(s) ==
    {[q \in 1..Len(s) |-> s[f[q]]] : f \in Permutations(1..Len(s))}

\* C7: the edge flags and nocont_ that set_edges leaves are the same for every
\* order of the vertical segments and every order of the horizontal ones.
C7_OrderIndependent ==
    op = "set_edges" =>
        \A V \in Orders(vertical), H \in Orders(horizontal) :
            SetEdgesResult(pre, V, H, jtol) = Now

\* C7's case: two different vertical lines, one matched and one not, that mark
\* and count the same in either order
C7_Witness ==
    /\ op = "set_edges"
    /\ Len(vertical) = 2
    /\ vertical[1] # vertical[2]
    /\ nocont_ = 1
    /\ cells # pre.cells
    /\ FirstWithin(vertical[1][4], rows, jtol) = 0

-----------------------------------------------------------------------------
(* C10 *)

\* C10: after any sequence of set_edges and set_spanning calls on a freshly
\* constructed table, horizontally adjacent cells agree on their shared edge
\* (cells[r][c].right = cells[r][c+1].left) and so do vertically adjacent
\* cells (cells[r][c].bottom = cells[r+1][c].top).
C10_SharedEdgesAgree ==
    /\ \A r \in 1..Len(cells) : \A c \in 1..(Len(cells[r]) - 1) :
          cells[r][c].right = cells[r][c + 1].left
    /\ \A r \in 1..(Len(cells) - 1) : \A c \in 1..Len(cells[r]) :
          cells[r][c].bottom = cells[r + 1][c].top

\* C10's case: a 2x2 table after a line that matched both columns, so that
\* the outer left and right edges were marked together, a line between the
\* columns, a line between the rows, and set_spanning
C10_Witness ==
    /\ Len(cols) = 2 /\ Len(rows) = 2
    /\ op = "set_spanning"
    /\ cells[1][1].left /\ cells[1][2].right
    /\ cells[1][1].right /\ cells[1][2].left
    /\ cells[1][1].bottom /\ cells[2][1].top
    /\ cells[1][1].spanning_v

====
